---- MODULE Spec2Model ----
(***************************************************************************)
(* Model of dashengine/bigquery.py: the query-definition loader            *)
(* (load_query), the process-wide TinyDB cache (CACHE), the                *)
(* execute-or-reuse coordinator (run_query) and the cache enumeration      *)
(* (fetch_cached_queries).                                                 *)
(*                                                                         *)
(* run_query is split where it touches state shared with other request     *)
(* threads: the cache lookup (with the thread-local client construction    *)
(* and definition load that follow a miss), the job submission, the wait   *)
(* for the job's rows, and the cache insertion.                            *)
(***************************************************************************)
EXTENDS Integers, Sequences, FiniteSets, TLC

VARIABLES
    CACHE,      \* the TinyDB table: documents {'query_id', 'result'} in doc-id order
    jobs,       \* the warehouse's jobs, one per accepted client.query() submission
    calls,      \* per request thread: the frame of its run_query call
    made,       \* run_query calls entered so far, over all threads
    nexec,      \* history: per identifier, run_query calls entered so far
    first,      \* history: per identifier, the first call that returned a result
    insLog,     \* history: the CACHE.insert calls, in order
    queries,    \* the list the last fetch_cached_queries() returned
    files,      \* the queries directory: identifier |-> what <identifier>.yml holds
    page        \* what the last layout() of the profiling page came to

vars == <<CACHE, jobs, calls, made, nexec, first, insLog, queries, files, page>>

----------------------------------------------------------------------------
(* Bounds *)

\* run_query calls entered in a run, over all request threads
MaxCalls == 3

----------------------------------------------------------------------------
(* Values *)

\* Python's None and an object reference: an optional value is the empty
\* sequence or a one-element sequence.
None == <<>>
Some(x) == <<x>>
Get(o) == o[1]

\* The request threads of the serving process.
Callers == {"t1", "t2"}

\* timedelta normalisation constants (datetime.timedelta keeps
\* 0 <= seconds < 86400 and 0 <= microseconds < 1000000).
SecondsPerDay == 86400
MicrosPerSecond == 1000000

\* A file of the queries directory: whether its text is valid YAML, and the
\* mapping yaml.safe_load returns when it is.
YamlFile(qdata) == [valid |-> TRUE, qdata |-> qdata]
Malformed == [valid |-> FALSE, qdata |-> <<>>]

\* The queries directory at process start: identifier |-> what
\* <identifier>.yml holds. Identifiers "a" and
\* "b" have complete definitions (both named "b"), "nobody" lacks the body
\* key, "badyaml" is not valid YAML, and "nofile" has no file at all.
QUERY_DATA_DIRECTORY ==
    [a       |-> YamlFile([name |-> "b", description |-> "first",  body |-> "SELECT 1"]),
     b       |-> YamlFile([name |-> "b", description |-> "second", body |-> "SELECT 2"]),
     nobody  |-> YamlFile([name |-> "nobody", description |-> "no body"]),
     badyaml |-> Malformed]

\* The identifiers a caller may request.
QueryIds == DOMAIN QUERY_DATA_DIRECTORY \cup {"nofile"}

\* A timestamp: seconds and microseconds.
Time(s, u) == [sec |-> s, usec |-> u]

\* What the warehouse can report for a finished job: five seconds, more
\* than a day, and an end stamped before the start.
Responses ==
    { [started |-> Time(100, 0), ended |-> Time(105, 0),
       total_bytes_billed |-> 500, total_bytes_processed |-> 2000],
      [started |-> Time(100, 0), ended |-> Time(86505, 250000),
       total_bytes_billed |-> 0, total_bytes_processed |-> 0],
      [started |-> Time(100, 0), ended |-> Time(95, 0),
       total_bytes_billed |-> 500, total_bytes_processed |-> 2000] }

----------------------------------------------------------------------------
(* Data model *)

\* BigQuery(name, description, body)
BigQuery(name, description, body) ==
    [name |-> name, description |-> description, body |-> body]

\* BigQueryResult(source, result, time, duration, bytes_billed, data_processed).
\* `result` is the DataFrame object; it is identified by the job whose rows
\* it holds, which also identifies the BigQueryResult object built around it.
BigQueryResult(source, result, time, duration, bytes_billed, data_processed) ==
    [source |-> source, result |-> result, time |-> time, duration |-> duration,
     bytes_billed |-> bytes_billed, data_processed |-> data_processed]

\* ended - started as datetime.timedelta normalises it.
TimeDelta(ended, started) ==
    LET du     == ended.usec - started.usec
        borrow == IF du < 0 THEN 1 ELSE 0
        ds     == ended.sec - started.sec - borrow
    IN  [days         |-> ds \div SecondsPerDay,
         seconds      |-> ds % SecondsPerDay,
         microseconds |-> du + borrow * MicrosPerSecond]

\* Mutant of Duration: the whole signed difference in seconds
\* (timedelta.total_seconds()) instead of the seconds field.
Duration_total_seconds(ended, started) ==
    TimeDelta(ended, started).days * SecondsPerDay + TimeDelta(ended, started).seconds

\* (query_result.ended - query_result.started).seconds
Duration(ended, started) == TimeDelta(ended, started).seconds

----------------------------------------------------------------------------
(* load_query *)

\* The outcome of a call: a value, or the exception raised.
NoError == "none"
Ok(v)    == [ok |-> TRUE,  value |-> Some(v), err |-> NoError]
Raise(e) == [ok |-> FALSE, value |-> None,    err |-> e]

\* Mutant of load_query: a loader that falls back to an empty definition
\* when the file or one of its keys is missing.
load_query_lenient(query_id) ==
    IF query_id \notin DOMAIN files
    THEN [ok |-> TRUE, value |-> <<[name |-> query_id, description |-> "", body |-> ""]>>,
          err |-> "none"]
    ELSE LET infile == files[query_id]
             qdata  == infile.qdata
             Field(k) == IF k \in DOMAIN qdata THEN qdata[k] ELSE ""
         IN
         IF ~infile.valid THEN [ok |-> FALSE, value |-> <<>>, err |-> "YAMLError"]
         ELSE [ok |-> TRUE,
               value |-> <<[name |-> Field("name"), description |-> Field("description"),
                            body |-> Field("body")]>>,
               err |-> "none"]

\* load_query(query_id): open() raises FileNotFoundError when the file is
\* absent; yaml.safe_load raises yaml.YAMLError (logged and re-raised) on
\* malformed text; subscripting the mapping raises KeyError on a missing
\* key, which the except clause does not catch.
load_query(query_id) ==
    IF query_id \notin DOMAIN files THEN Raise("FileNotFoundError")
    ELSE LET infile == files[query_id]
             qdata  == infile.qdata
         IN
         IF ~infile.valid THEN Raise("YAMLError")
         ELSE IF "name" \notin DOMAIN qdata THEN Raise("KeyError")
         ELSE IF "description" \notin DOMAIN qdata THEN Raise("KeyError")
         ELSE IF "body" \notin DOMAIN qdata THEN Raise("KeyError")
         ELSE Ok(BigQuery(qdata.name, qdata.description, qdata.body))

----------------------------------------------------------------------------
(* The TinyDB table *)

\* Mutant of CacheGet: the condition does not compare the identifier, so the
\* first document of the table matches.
CacheGet_anykey(cache, query_id) ==
    IF Len(cache) = 0 THEN None ELSE Some(cache[1])

\* Mutant of CacheGet: the lookup is keyed by the name of the definition
\* that produced the result, not by the identifier of the request.
CacheGet_byname(cache, query_id) ==
    LET hits == {i \in 1..Len(cache) : cache[i].result.source.name = query_id} IN
    IF hits = {} THEN None
    ELSE Some(cache[CHOOSE i \in hits : \A j \in hits : i <= j])

\* Mutant of CacheGet: the lookup never matches.
CacheGet_nomatch(cache, query_id) == None

\* CACHE.get(Query().query_id == query_id): the first document, in doc-id
\* order, whose query_id matches, or None.
CacheGet(cache, query_id) ==
    LET hits == {i \in 1..Len(cache) : cache[i].query_id = query_id} IN
    IF hits = {} THEN None
    ELSE Some(cache[CHOOSE i \in hits : \A j \in hits : i <= j])

\* Mutant of CacheInsert: an upsert, which replaces the document stored for
\* the identifier when there is one.
CacheInsert_upsert(cache, query_id, bqr) ==
    IF \E i \in 1..Len(cache) : cache[i].query_id = query_id
    THEN [i \in 1..Len(cache) |->
            IF cache[i].query_id = query_id
            THEN [query_id |-> query_id, result |-> bqr] ELSE cache[i]]
    ELSE Append(cache, [query_id |-> query_id, result |-> bqr])

\* CACHE.insert({'query_id': query_id, 'result': bqr}): a new document with
\* the next doc id; TinyDB has no unique keys.
CacheInsert(cache, query_id, bqr) ==
    Append(cache, [query_id |-> query_id, result |-> bqr])

\* Mutant of fetch_cached_queries: the enumeration skips the first document.
fetch_cached_queries_skip(cache) ==
    [i \in 1..(IF Len(cache) = 0 THEN 0 ELSE Len(cache) - 1) |-> cache[i + 1].result]

\* fetch_cached_queries(): the result of every document, in doc-id order.
fetch_cached_queries(cache) ==
    [i \in 1..Len(cache) |-> cache[i].result]

----------------------------------------------------------------------------
(* run_query *)

\* The frame of a thread that is not inside run_query and has not called it.
\* `stale` is history: whether, when the call hit the cache, the definition
\* file no longer loaded to the definition the cached result was built from.
IdleFrame ==
    [pc |-> "idle", query_id |-> "", ord |-> 0, hit |-> FALSE,
     client |-> FALSE, query |-> None, query_result |-> 0,
     subs |-> 0, ins |-> 0, ret |-> None, err |-> NoError,
     stale |-> FALSE]

\* A call is over once it returned a result or raised.
Finished(c) == calls[c].pc \in {"returned", "raised"}
InCall(c)   == calls[c].pc \notin {"idle", "returned", "raised"}

TypeOK ==
    /\ \A c \in Callers :
         /\ calls[c].pc \in {"idle", "query", "dataframe", "insert",
                             "returned", "raised"}
         /\ calls[c].pc = "returned" <=> calls[c].ret # None
         /\ calls[c].pc = "raised" <=> calls[c].err # NoError
         /\ calls[c].query_result \in 0..Len(jobs)
    /\ made \in 0..MaxCalls
    /\ nexec \in [QueryIds -> Nat]
    /\ Len(insLog) <= Len(jobs)

Init ==
    /\ CACHE = <<>>
    /\ jobs = <<>>
    /\ calls = [c \in Callers |-> IdleFrame]
    /\ made = 0
    /\ nexec = [i \in QueryIds |-> 0]
    /\ first = [i \in QueryIds |-> None]
    /\ insLog = <<>>
    /\ queries = <<>>
    /\ files = QUERY_DATA_DIRECTORY
    /\ page = "none"

\* History: remember the first call for an identifier that returned a result.
NoteReturn(query_id, ord, bqr) ==
    first' = IF first[query_id] = None
             THEN [first EXCEPT ![query_id] = Some([ord |-> ord, ret |-> bqr])]
             ELSE first

\* Lines 119-122 for a call that missed the cache: client = bigquery.Client()
\* raises when the credentials or the project cannot be resolved; then
\* query = load_query(query_id), whose failure propagates. Both touch only
\* the thread's own frame and read the query files, so they are taken in
\* one step with the cache check.
run_query_setup(frame) ==
    LET loaded == load_query(frame.query_id) IN
    { [frame EXCEPT !.pc = "raised", !.err = "DefaultCredentialsError"],
      IF loaded.ok
      THEN [frame EXCEPT !.pc = "query", !.client = TRUE, !.query = loaded.value]
      ELSE [frame EXCEPT !.pc = "raised", !.client = TRUE, !.err = loaded.err] }

\* History: the definition file of query_id does not load to the source of
\* the cached result bqr.
Stale(query_id, bqr) == load_query(query_id) # Ok(bqr.source)

\* Mutant of run_query_check: the client and the query are set up before
\* the cache is checked.
run_query_check_eager(c, query_id) ==
    /\ ~InCall(c)
    /\ made < MaxCalls
    /\ made' = made + 1
    /\ nexec' = [nexec EXCEPT ![query_id] = @ + 1]
    /\ LET cache_check == CacheGet(CACHE, query_id)
           frame == [IdleFrame EXCEPT !.query_id = query_id,
                                      !.ord = nexec[query_id] + 1]
       IN  \E f \in run_query_setup(frame) :
              IF f.pc # "raised" /\ cache_check # None
              THEN /\ calls' = [calls EXCEPT ![c] =
                          [f EXCEPT !.pc = "returned", !.hit = TRUE,
                                    !.ret = Some(Get(cache_check).result),
                                    !.stale = Stale(query_id, Get(cache_check).result)]]
                   /\ NoteReturn(query_id, nexec[query_id] + 1, Get(cache_check).result)
              ELSE /\ calls' = [calls EXCEPT ![c] = f]
                   /\ UNCHANGED first
    /\ UNCHANGED <<CACHE, jobs, insLog, queries, files, page>>

\* Lines 114-122: entry of run_query(query_id) and the cache check. A
\* matching document is returned at once (its result is a BigQueryResult
\* object, which is always truthy); otherwise the call sets up the client
\* and the query.
run_query_check(c, query_id) ==
    /\ ~InCall(c)
    /\ made < MaxCalls
    /\ made' = made + 1
    /\ nexec' = [nexec EXCEPT ![query_id] = @ + 1]
    /\ LET cache_check == CacheGet(CACHE, query_id)
           frame == [IdleFrame EXCEPT !.query_id = query_id,
                                      !.ord = nexec[query_id] + 1]
       IN  IF cache_check # None
           THEN /\ calls' = [calls EXCEPT ![c] =
                       [frame EXCEPT !.pc = "returned", !.hit = TRUE,
                                     !.ret = Some(Get(cache_check).result),
                                     !.stale = Stale(query_id, Get(cache_check).result)]]
                /\ NoteReturn(query_id, nexec[query_id] + 1, Get(cache_check).result)
           ELSE /\ \E f \in run_query_setup(frame) : calls' = [calls EXCEPT ![c] = f]
                /\ UNCHANGED first
    /\ UNCHANGED <<CACHE, jobs, insLog, queries, files, page>>

\* Mutant of run_query_submit: a rejected submission is retried once before
\* the call raises.
run_query_submit_retry(c) ==
    /\ calls[c].pc = "query"
    /\ \/ /\ jobs' = Append(jobs, [body |-> Get(calls[c].query).body, state |-> "RUNNING",
                                   response |-> None])
          /\ calls' = [calls EXCEPT ![c].pc = "dataframe",
                                    ![c].query_result = Len(jobs) + 1,
                                    ![c].subs = @ + 1]
       \/ /\ jobs' = jobs
          /\ calls' = [calls EXCEPT ![c].pc = "raised",
                                    ![c].subs = @ + 2,
                                    ![c].err = "GoogleAPICallError"]
    /\ UNCHANGED <<CACHE, made, nexec, first, insLog, queries, files, page>>

\* Line 124: query_result = client.query(query.body): one submission to the
\* warehouse, which starts a job, or rejects the request (no job, and the
\* call raises).
run_query_submit(c) ==
    /\ calls[c].pc = "query"
    /\ \/ /\ jobs' = Append(jobs, [body |-> Get(calls[c].query).body, state |-> "RUNNING",
                                   response |-> None])
          /\ calls' = [calls EXCEPT ![c].pc = "dataframe",
                                    ![c].query_result = Len(jobs) + 1,
                                    ![c].subs = @ + 1]
       \/ /\ jobs' = jobs
          /\ calls' = [calls EXCEPT ![c].pc = "raised",
                                    ![c].subs = @ + 1,
                                    ![c].err = "GoogleAPICallError"]
    /\ UNCHANGED <<CACHE, made, nexec, first, insLog, queries, files, page>>

\* Mutant of run_query_to_dataframe: the failure of the job is swallowed and
\* the call goes on with whatever statistics the failed job carries.
run_query_to_dataframe_swallow(c) ==
    /\ calls[c].pc = "dataframe"
    /\ LET j == calls[c].query_result IN
       \E r \in Responses :
          /\ \/ jobs' = [jobs EXCEPT ![j].state = "DONE", ![j].response = Some(r)]
             \/ jobs' = [jobs EXCEPT ![j].state = "FAILED", ![j].response = Some(r)]
          /\ calls' = [calls EXCEPT ![c].pc = "insert"]
    /\ UNCHANGED <<CACHE, made, nexec, first, insLog, queries, files, page>>

\* Line 125: query_data = query_result.to_dataframe() blocks until the job
\* ends; a failed job raises, a finished one carries the job statistics.
run_query_to_dataframe(c) ==
    /\ calls[c].pc = "dataframe"
    /\ LET j == calls[c].query_result IN
       \/ \E r \in Responses :
            /\ jobs' = [jobs EXCEPT ![j].state = "DONE", ![j].response = Some(r)]
            /\ calls' = [calls EXCEPT ![c].pc = "insert"]
       \/ /\ jobs' = [jobs EXCEPT ![j].state = "FAILED"]
          /\ calls' = [calls EXCEPT ![c].pc = "raised",
                                    ![c].err = "GoogleAPICallError"]
    /\ UNCHANGED <<CACHE, made, nexec, first, insLog, queries, files, page>>

\* Mutant of run_query_insert: single-flight by a second lookup, so a call
\* that finds the identifier cached by now returns that document and
\* inserts nothing.
run_query_insert_recheck(c) ==
    /\ calls[c].pc = "insert"
    /\ LET j   == calls[c].query_result
           r   == Get(jobs[j].response)
           bqr == BigQueryResult(Get(calls[c].query), j, r.ended,
                                 Duration(r.ended, r.started),
                                 r.total_bytes_billed, r.total_bytes_processed)
           now == CacheGet(CACHE, calls[c].query_id)
       IN  IF now # None
           THEN /\ calls' = [calls EXCEPT ![c].pc = "returned",
                                          ![c].ret = Some(Get(now).result)]
                /\ NoteReturn(calls[c].query_id, calls[c].ord, Get(now).result)
                /\ UNCHANGED <<CACHE, insLog>>
           ELSE /\ CACHE' = CacheInsert(CACHE, calls[c].query_id, bqr)
                /\ insLog' = Append(insLog, [query_id |-> calls[c].query_id,
                                             result |-> bqr])
                /\ calls' = [calls EXCEPT ![c].pc = "returned", ![c].ins = @ + 1,
                                          ![c].ret = Some(bqr)]
                /\ NoteReturn(calls[c].query_id, calls[c].ord, bqr)
    /\ UNCHANGED <<jobs, made, nexec, queries, files, page>>

\* Lines 127-136: build the BigQueryResult, insert it in the cache, return it.
run_query_insert(c) ==
    /\ calls[c].pc = "insert"
    /\ LET j   == calls[c].query_result
           r   == Get(jobs[j].response)
           bqr == BigQueryResult(Get(calls[c].query), j, r.ended,
                                 Duration(r.ended, r.started),
                                 r.total_bytes_billed, r.total_bytes_processed)
       IN  /\ CACHE' = CacheInsert(CACHE, calls[c].query_id, bqr)
           /\ insLog' = Append(insLog, [query_id |-> calls[c].query_id, result |-> bqr])
           /\ calls' = [calls EXCEPT ![c].pc = "returned", ![c].ins = @ + 1,
                                     ![c].ret = Some(bqr)]
           /\ NoteReturn(calls[c].query_id, calls[c].ord, bqr)
    /\ UNCHANGED <<jobs, made, nexec, queries, files, page>>

\* Lines 88-97: a consumer enumerates the cache.
list_results ==
    /\ queries' = fetch_cached_queries(CACHE)
    /\ UNCHANGED <<CACHE, jobs, calls, made, nexec, first, insLog, files, page>>

----------------------------------------------------------------------------
(* stdpages/profiling.py: the profiling page *)

\* getattr(obj, name) on a dataclass instance succeeds for its fields only:
\* any other attribute or method raises AttributeError.
HasAttrs(obj, names) == names \subseteq DOMAIN obj

\* __index_query(query, key) builds its whole dictionary before indexing
\* it, so it reads these attributes of the result whatever the key.
index_query_reads == {"memory_usage", "duration", "bytes_processed", "bytes_billed"}

\* _query_profile_charts(query, totals) also names the bar by query.uuid.
query_profile_charts_reads == index_query_reads \cup {"uuid"}

\* _query_profile_table(cached_queries) reads these attributes of every
\* result, and query_id of its source.
query_profile_table_reads ==
    {"source", "uuid", "duration", "memory_usage", "bytes_processed", "bytes_billed"}
query_profile_table_source_reads == {"query_id"}

\* __normalising_constants(cached_queries): sums __index_query over every
\* result and key; it raises when an attribute is missing.
normalising_constants(cached_queries) ==
    IF \A k \in 1..Len(cached_queries) : HasAttrs(cached_queries[k], index_query_reads)
    THEN NoError ELSE "AttributeError"

\* What layout() comes to for the list fetch_cached_queries() returned: the
\* placeholder, the container with the chart and the table, or the
\* exception raised on the way.
layout_outcome(cached_queries) ==
    IF Len(cached_queries) = 0 THEN "No queries in cache"
    ELSE IF normalising_constants(cached_queries) # NoError
    THEN normalising_constants(cached_queries)
    ELSE IF \E k \in 1..Len(cached_queries) :
                ~HasAttrs(cached_queries[k], query_profile_charts_reads)
    THEN "AttributeError"
    ELSE IF \E k \in 1..Len(cached_queries) :
                \/ ~HasAttrs(cached_queries[k], query_profile_table_reads)
                \/ ~HasAttrs(cached_queries[k].source, query_profile_table_source_reads)
    THEN "AttributeError"
    ELSE "container"

\* Lines 176-195: layout() of the profiling page.
layout ==
    /\ queries' = fetch_cached_queries(CACHE)
    /\ page' = layout_outcome(fetch_cached_queries(CACHE))
    /\ UNCHANGED <<CACHE, jobs, calls, made, nexec, first, insLog, files>>

----------------------------------------------------------------------------
(* The definition files *)

\* The definitions a result can be cached for: the files of the directory
\* that load.
EditableIds ==
    {i \in DOMAIN QUERY_DATA_DIRECTORY :
        /\ QUERY_DATA_DIRECTORY[i].valid
        /\ {"name", "description", "body"} \subseteq DOMAIN QUERY_DATA_DIRECTORY[i].qdata}

\* Lines 74-79 read the definition file anew on every load, so what an
\* analyst does to a file is seen by the next load. The case of interest is
\* a definition edited after a result was cached for it; one file is edited
\* in a run.
Editable(i) ==
    /\ i \in EditableIds
    /\ files = QUERY_DATA_DIRECTORY
    /\ CacheGet(CACHE, i) # None

\* The analyst gives the definition another body,
change_definition(i) ==
    /\ Editable(i)
    /\ files' = [files EXCEPT ![i].qdata.body = "SELECT 0"]
    /\ UNCHANGED <<CACHE, jobs, calls, made, nexec, first, insLog, queries, page>>

\* breaks its YAML,
corrupt_definition(i) ==
    /\ Editable(i)
    /\ files' = [files EXCEPT ![i] = Malformed]
    /\ UNCHANGED <<CACHE, jobs, calls, made, nexec, first, insLog, queries, page>>

\* or removes it.
remove_definition(i) ==
    /\ Editable(i)
    /\ files' = [j \in DOMAIN files \ {i} |-> files[j]]
    /\ UNCHANGED <<CACHE, jobs, calls, made, nexec, first, insLog, queries, page>>

----------------------------------------------------------------------------
(* Specifications *)

\* Request threads interleave freely.
Next ==
    \/ \E c \in Callers, query_id \in QueryIds : run_query_check(c, query_id)
    \/ \E c \in Callers : run_query_submit(c)
    \/ \E c \in Callers : run_query_to_dataframe(c)
    \/ \E c \in Callers : run_query_insert(c)
    \/ list_results

Spec == Init /\ [][Next]_vars

\* One run_query call at a time: a call is entered only when no other call
\* is in progress.
Quiet == \A c \in Callers : ~InCall(c)

SeqNext ==
    \/ \E c \in Callers, query_id \in QueryIds : Quiet /\ run_query_check(c, query_id)
    \/ \E c \in Callers : run_query_submit(c)
    \/ \E c \in Callers : run_query_to_dataframe(c)
    \/ \E c \in Callers : run_query_insert(c)
    \/ list_results

SeqSpec == Init /\ [][SeqNext]_vars

\* Sequential calls, with an analyst editing the definition files meanwhile.
EnvNext ==
    \/ SeqNext
    \/ \E i \in EditableIds : change_definition(i)
    \/ \E i \in EditableIds : corrupt_definition(i)
    \/ \E i \in EditableIds : remove_definition(i)

EnvSpec == Init /\ [][EnvNext]_vars

\* Sequential calls, with the profiling page rendered in between.
PageNext ==
    \/ SeqNext
    \/ layout

PageSpec == Init /\ [][PageNext]_vars

----------------------------------------------------------------------------
(* Properties *)

\* Identifiers whose definition file loads.
ValidIds == {i \in QueryIds : load_query(i).ok}

\* Identifiers with no definition file.
AbsentIds == QueryIds \ DOMAIN QUERY_DATA_DIRECTORY

\* Identifiers whose file is valid YAML but lacks the body key.
MissingBodyIds ==
    {i \in DOMAIN QUERY_DATA_DIRECTORY :
        /\ QUERY_DATA_DIRECTORY[i].valid
        /\ "body" \notin DOMAIN QUERY_DATA_DIRECTORY[i].qdata}

\* Identifiers whose file is not valid YAML.
MalformedIds == {i \in DOMAIN QUERY_DATA_DIRECTORY : ~QUERY_DATA_DIRECTORY[i].valid}

\* Identifiers for which some call has returned a result.
Executed == {i \in QueryIds : first[i] # None}

\* The insertions made for an identifier, in order.
InsertionsFor(query_id) ==
    LET Same(e) == e.query_id = query_id IN SelectSeq(insLog, Same)

\* The documents the cache holds for an identifier, in doc-id order.
EntriesFor(query_id) ==
    LET Same(e) == e.query_id = query_id IN SelectSeq(CACHE, Same)

\* C1 as stated (sequential runs): for an identifier with a valid definition
\* the first run_query call makes exactly one submission, and every later
\* call makes none and returns the object the first call returned.
C1_FirstCallSubmitsOnce ==
    \A c \in Callers :
        (Finished(c) /\ calls[c].query_id \in ValidIds) =>
            IF calls[c].ord = 1
            THEN calls[c].subs = 1
            ELSE /\ calls[c].subs = 0
                 /\ first[calls[c].query_id] # None
                 /\ Get(first[calls[c].query_id]).ord = 1
                 /\ calls[c].ret = Some(Get(first[calls[c].query_id]).ret)

\* C1 amended (sequential runs): for an identifier with a valid definition,
\* every call before the first successful one fails, the first successful
\* call makes exactly one submission, and every later call is a hit that
\* makes no submission and returns the object the first successful call
\* returned.
C1_FirstSuccessThenReuse ==
    \A c \in Callers :
        (Finished(c) /\ calls[c].query_id \in ValidIds) =>
            LET I == calls[c].query_id IN
            IF first[I] = None \/ calls[c].ord < Get(first[I]).ord
            THEN calls[c].pc = "raised" /\ calls[c].subs <= 1
            ELSE IF calls[c].ord = Get(first[I]).ord
            THEN /\ calls[c].pc = "returned"
                 /\ calls[c].subs = 1
                 /\ calls[c].ret = Some(Get(first[I]).ret)
            ELSE /\ calls[c].pc = "returned"
                 /\ calls[c].hit
                 /\ calls[c].subs = 0
                 /\ calls[c].ret = Some(Get(first[I]).ret)

\* C1 witness: a later call for an identifier has returned the first
\* successful call's object, and that first success came after a failed call.
C1_Witness ==
    \E c \in Callers :
        /\ calls[c].pc = "returned"
        /\ calls[c].query_id \in ValidIds
        /\ calls[c].ord = 3
        /\ Get(first[calls[c].query_id]).ord = 2
        /\ calls[c].subs = 0

\* C2: every document of the cache holds the result of a job that finished
\* successfully, built from that job's statistics and from the query that
\* was submitted; a call that raised has inserted nothing.
C2_CacheHoldsOnlySuccesses ==
    /\ \A k \in 1..Len(CACHE) :
          LET r == CACHE[k].result IN
          /\ r.result \in 1..Len(jobs)
          /\ jobs[r.result].state = "DONE"
          /\ jobs[r.result].body = r.source.body
          /\ r.time = Get(jobs[r.result].response).ended
          /\ r.source = Get(load_query(CACHE[k].query_id).value)
    /\ \A c \in Callers : calls[c].pc = "raised" => calls[c].ins = 0
    /\ Len(CACHE) = Len(insLog)
    /\ Len(CACHE) <= Cardinality({j \in 1..Len(jobs) : jobs[j].state = "DONE"})

\* C2 witness: a job failed after submission while the cache holds a result.
C2_Witness ==
    /\ \E c \in Callers :
          /\ calls[c].pc = "raised"
          /\ calls[c].subs = 1
          /\ calls[c].query_result # 0
          /\ jobs[calls[c].query_result].state = "FAILED"
    /\ Len(CACHE) >= 1

ParseErrorKinds == {load_query(i).err : i \in MalformedIds}

C5_ListOnePerExecuted ==
    [][(calls' = calls) =>
          /\ CACHE' = CACHE
          /\ Len(queries') = Cardinality(Executed)
          /\ \A i \in Executed :
                Cardinality({k \in 1..Len(queries') :
                                queries'[k] = Get(first[i]).ret}) = 1
          /\ (Len(queries) = Cardinality(Executed) => queries' = queries)]_vars

\* C5 witness: two identifiers were executed, one of them again (a hit), and
\* the list returned holds two results.
C5_Witness ==
    /\ Cardinality(Executed) = 2
    /\ Len(queries) = 2
    /\ \E c \in Callers : calls[c].pc = "returned" /\ calls[c].hit

\* C6: a call returns from the cache only when an earlier call for the same
\* identifier has inserted a result, built from a job that finished.
C6_HitOnlyAfterInsertion ==
    \A c \in Callers :
        calls[c].hit =>
            \E k \in 1..Len(insLog) :
                /\ insLog[k].query_id = calls[c].query_id
                /\ jobs[insLog[k].result.result].state = "DONE"
                /\ calls[c].ret = Some(insLog[k].result)

\* C6 witness: a call hit the cache while another call for the same
\* identifier, which had missed, is still waiting for its job.
C6_Witness ==
    \E c, d \in Callers :
        /\ c # d
        /\ calls[c].hit
        /\ calls[d].pc = "dataframe"
        /\ calls[d].query_id = calls[c].query_id

\* C7 as stated: once two insertions were made for an identifier, the cache
\* holds a single document for it and a lookup returns the result inserted
\* last.
C7_LastInsertionWins ==
    \A i \in QueryIds :
        Len(InsertionsFor(i)) >= 2 =>
            /\ Len(EntriesFor(i)) = 1
            /\ Get(CacheGet(CACHE, i)).result =
                   InsertionsFor(i)[Len(InsertionsFor(i))].result

\* C7 amended: every insertion adds a document, so the cache holds one
\* document per insertion made for the identifier, in insertion order, and a
\* lookup (and so every hit) returns the result inserted first.
C7_FirstInsertionWins ==
    \A i \in QueryIds :
        /\ EntriesFor(i) = InsertionsFor(i)
        /\ Len(InsertionsFor(i)) >= 1 =>
               Get(CacheGet(CACHE, i)).result = InsertionsFor(i)[1].result
        /\ \A c \in Callers :
               (calls[c].hit /\ calls[c].query_id = i) =>
                   calls[c].ret = Some(InsertionsFor(i)[1].result)

\* C7 witness: two insertions were made for one identifier, with different
\* results, and a later call hit the cache for it.
C7_Witness ==
    \E i \in QueryIds, c \in Callers :
        /\ Len(InsertionsFor(i)) = 2
        /\ InsertionsFor(i)[1].result # InsertionsFor(i)[2].result
        /\ calls[c].hit
        /\ calls[c].query_id = i

\* C8 as stated: a finished call that missed made exactly one submission, a
\* call that returned a fresh result made exactly one insertion, and a hit
\* made neither.
C8_OneSubmissionPerMiss ==
    \A c \in Callers :
        Finished(c) =>
            /\ ~calls[c].hit => calls[c].subs = 1
            /\ (~calls[c].hit /\ calls[c].pc = "returned") => calls[c].ins = 1
            /\ calls[c].hit => (calls[c].subs = 0 /\ calls[c].ins = 0)

\* C8 amended: a finished call that missed made exactly one submission when
\* its client and its definition were set up, and none when either failed;
\* it made exactly one insertion when it returned a result and none when it
\* raised; a hit made neither.
C8_Accounting ==
    \A c \in Callers :
        Finished(c) =>
            /\ ~calls[c].hit =>
                   calls[c].subs = (IF calls[c].query # None THEN 1 ELSE 0)
            /\ (~calls[c].hit /\ calls[c].pc = "returned") => calls[c].ins = 1
            /\ calls[c].pc = "raised" => calls[c].ins = 0
            /\ calls[c].hit => (calls[c].subs = 0 /\ calls[c].ins = 0)

\* C8 witness: one call missed and raised before any submission, another
\* missed, submitted once and inserted once.
C8_Witness ==
    \E c, d \in Callers :
        /\ calls[c].pc = "raised" /\ calls[c].subs = 0
        /\ calls[d].pc = "returned" /\ ~calls[d].hit
        /\ calls[d].subs = 1 /\ calls[d].ins = 1

\* C9 as stated, for the jobs that did not end before they started: the
\* duration of every cached result is the whole difference between the end
\* and the start its job reported, elapsed times of a day or more included.
C9_DurationIsElapsed ==
    \A k \in 1..Len(CACHE) :
        LET r    == CACHE[k].result
            resp == Get(jobs[r.result].response)
        IN  resp.ended.sec >= resp.started.sec =>
                TimeDelta(resp.ended, resp.started) =
                    [days |-> 0, seconds |-> r.duration, microseconds |-> 0]

\* C10: every result in the cache or returned by a call has a duration that
\* is not negative (and below a day), whatever the job reported.
C10_DurationNonNegative ==
    /\ \A k \in 1..Len(CACHE) :
          CACHE[k].result.duration >= 0 /\ CACHE[k].result.duration < SecondsPerDay
    /\ \A c \in Callers :
          calls[c].pc = "returned" => Get(calls[c].ret).duration >= 0

\* C10 witness: the cache holds the result of a job whose end was stamped
\* before its start.
C10_Witness ==
    \E k \in 1..Len(CACHE) :
        LET resp == Get(jobs[CACHE[k].result.result].response)
        IN  /\ resp.ended.sec < resp.started.sec
            /\ CACHE[k].result.duration > 0

\* The step enters a run_query call of thread c.
Enters(c) == ~InCall(c) /\ calls'[c] # calls[c]

C12_EntriesNeverReplaced ==
    [][/\ Len(CACHE') >= Len(CACHE)
       /\ \A k \in 1..Len(CACHE) : CACHE'[k] = CACHE[k]
       /\ \A c \in Callers :
             (Enters(c) /\ calls'[c].hit) =>
                 /\ Len(InsertionsFor(calls'[c].query_id)) >= 1
                 /\ calls'[c].ret =
                        Some(InsertionsFor(calls'[c].query_id)[1].result)
                 /\ CACHE' = CACHE]_vars

\* C12 witness: a second, different result was inserted for an identifier,
\* and a call that hit the cache for it holds the original one.
C12_Witness ==
    \E c \in Callers :
        /\ calls[c].hit
        /\ Len(EntriesFor(calls[c].query_id)) = 2
        /\ calls[c].ret = Some(EntriesFor(calls[c].query_id)[1].result)
        /\ calls[c].ret # Some(EntriesFor(calls[c].query_id)[2].result)

\* C13: a call that missed the cache leaves nothing in the cache until its
\* own insertion, so it keeps no later call for the same identifier from
\* missing too; and two calls for one identifier that both missed and both
\* returned have each submitted once, to a job of their own, and each
\* inserted the result they returned.
C13_NoSingleFlight ==
    /\ \A c \in Callers :
          (calls[c].pc \in {"query", "dataframe", "insert"}
              /\ InsertionsFor(calls[c].query_id) = <<>>) =>
                  CacheGet(CACHE, calls[c].query_id) = None
    /\ \A c, d \in Callers :
          ( /\ c # d
            /\ calls[c].query_id = calls[d].query_id
            /\ calls[c].pc = "returned" /\ ~calls[c].hit
            /\ calls[d].pc = "returned" /\ ~calls[d].hit ) =>
              /\ calls[c].subs = 1 /\ calls[d].subs = 1
              /\ calls[c].ins = 1 /\ calls[d].ins = 1
              /\ calls[c].query_result # calls[d].query_result
              /\ calls[c].ret # calls[d].ret
              /\ \E k, l \in 1..Len(CACHE) :
                    /\ k # l
                    /\ CACHE[k] = [query_id |-> calls[c].query_id,
                                   result |-> Get(calls[c].ret)]
                    /\ CACHE[l] = [query_id |-> calls[d].query_id,
                                   result |-> Get(calls[d].ret)]

\* C13 witness: two calls for the same identifier both missed the cold
\* cache, both submitted the query (two jobs for one body), and both
\* inserted a result.
C13_Witness ==
    \E c, d \in Callers :
        /\ c # d
        /\ calls[c].query_id = calls[d].query_id
        /\ calls[c].ord = 1 /\ calls[d].ord = 2
        /\ calls[c].pc = "returned" /\ ~calls[c].hit /\ calls[c].subs = 1
        /\ calls[d].pc = "returned" /\ ~calls[d].hit /\ calls[d].subs = 1
        /\ Len(jobs) = 2 /\ jobs[1].body = jobs[2].body
        /\ Len(EntriesFor(calls[c].query_id)) = 2

\* C15: a hit returns a result that was inserted under the requested
\* identifier and built from that identifier's definition, never a document
\* stored under another identifier; and two identifiers that were both
\* executed have a document and a job each, also when their definitions
\* carry the same name.
C15_KeyedByIdentifier ==
    /\ \A c \in Callers :
          calls[c].hit =>
              /\ \E k \in 1..Len(CACHE) :
                    /\ CACHE[k].query_id = calls[c].query_id
                    /\ calls[c].ret = Some(CACHE[k].result)
              /\ Get(calls[c].ret).source = Get(load_query(calls[c].query_id).value)
    /\ \A i, j \in Executed :
          i # j =>
              /\ Len(EntriesFor(i)) >= 1 /\ Len(EntriesFor(j)) >= 1
              /\ Get(first[i]).ret.result # Get(first[j]).ret.result
              /\ Cardinality({k \in 1..Len(jobs) : jobs[k].state = "DONE"}) >= 2

\* C15 witness: the first document is stored under an identifier whose
\* definition is named like another identifier, both definitions carry the
\* same name, and a call for that other identifier hit its own document.
C15_Witness ==
    \E c \in Callers :
        /\ calls[c].hit
        /\ Len(CACHE) >= 2
        /\ CACHE[1].query_id # calls[c].query_id
        /\ CACHE[1].result.source.name = calls[c].query_id
        /\ Get(calls[c].ret).source.name = CACHE[1].result.source.name
        /\ Get(calls[c].ret) # CACHE[1].result
        /\ Len(jobs) >= 2

\* C14 (sequential runs, definition files edited meanwhile): a call entered
\* for an identifier that has a result inserted returns that result in the
\* same step, without constructing a client or loading the definition,
\* without a submission or an insertion, and without raising, whatever the
\* definition file holds by then; the step changes nothing but the thread's
\* frame and the history of calls.
C14_HitTouchesNothingElse ==
    [][\A c \in Callers :
          (Enters(c) /\ Len(InsertionsFor(calls'[c].query_id)) >= 1) =>
              /\ calls'[c].pc = "returned"
              /\ calls'[c].hit
              /\ calls'[c].ret = Some(InsertionsFor(calls'[c].query_id)[1].result)
              /\ ~calls'[c].client
              /\ calls'[c].query = None
              /\ calls'[c].subs = 0
              /\ calls'[c].ins = 0
              /\ calls'[c].err = NoError
              /\ CACHE' = CACHE
              /\ jobs' = jobs
              /\ files' = files
              /\ queries' = queries]_vars

\* C14 witness: a call hit the cache for an identifier whose definition file
\* had been removed.
C14_Witness ==
    \E c \in Callers :
        /\ calls[c].pc = "returned"
        /\ calls[c].hit
        /\ calls[c].stale
        /\ calls[c].query_id \notin DOMAIN files
        /\ ~calls[c].client

\* C16 as stated: layout() comes to the placeholder while the cache is
\* empty, never ends in an error, and once the cache holds a result comes to
\* the container with the chart and the table; it changes neither the cache
\* nor the warehouse's jobs.
C16_LayoutRenders ==
    /\ page \in {"none", "No queries in cache", "container"}
    /\ (page # "none" /\ Len(CACHE) = 0) => page = "No queries in cache"
    /\ page = "container" => Len(CACHE) >= 1
    /\ Len(insLog) = Len(CACHE)

====
